---------------------------- MODULE Spec2Model ----------------------------
(***************************************************************************)
(* Model of fp_fetch_rankings.py: the table acquisition and schema         *)
(* normalisation pipeline (try_fetch_csv, clean_columns,                   *)
(* locate_projection_table, fetch_html_table, extract_player_team_fpts,    *)
(* fetch_position, main).                                                  *)
(*                                                                         *)
(* Text is a sequence of one-character strings, so that strip(), lower(),  *)
(* split(), isupper() and str() are computed, not assumed.  A Python value *)
(* (a column label or a cell) is a record [k, s, n]: k is its kind ("str", *)
(* "int", "na" for NaN/missing, "inf"), s its text, n its number or sign.  *)
(***************************************************************************)
EXTENDS Integers, Sequences, FiniteSets, TLC

\* ------------------------------------------------------------------ values

StrV(s) == [k |-> "str", s |-> s, n |-> 0]
IntV(n) == [k |-> "int", s |-> <<>>, n |-> n]
InfV(sign) == [k |-> "inf", s |-> <<>>, n |-> sign]
NA == [k |-> "na", s |-> <<>>, n |-> 0]

\* ------------------------------------------------------------------ text

UpperChars == <<"A","B","C","D","E","F","G","H","I","J","K","L","M",
                "N","O","P","Q","R","S","T","U","V","W","X","Y","Z">>
LowerChars == <<"a","b","c","d","e","f","g","h","i","j","k","l","m",
                "n","o","p","q","r","s","t","u","v","w","x","y","z">>
DigitChars == <<"0","1","2","3","4","5","6","7","8","9">>
Whitespace == {" ", "\t", "\n"}

Range(f) == {f[i] : i \in DOMAIN f}

\* the list with the elements of f, each computed once
List(f) == SubSeq(f, 1, Len(f))

\* str.lower() on one character
LowerChar(c) ==
    IF \E i \in DOMAIN UpperChars : UpperChars[i] = c
    THEN LowerChars[CHOOSE i \in DOMAIN UpperChars : UpperChars[i] = c]
    ELSE c

\* str.lower()
Lower(s) == List([i \in DOMAIN s |-> LowerChar(s[i])])

\* str.strip(): drop leading and trailing whitespace
Strip(s) ==
    LET keep == {i \in DOMAIN s : s[i] \notin Whitespace}
    IN  IF keep = {} THEN <<>>
        ELSE LET lo == CHOOSE i \in keep : \A j \in keep : i <= j
                 hi == CHOOSE i \in keep : \A j \in keep : j <= i
             IN  SubSeq(s, lo, hi)

\* str.split() with no separator: the maximal runs of non-whitespace
RECURSIVE SplitFrom(_, _, _)
SplitFrom(s, i, cur) ==
    IF i > Len(s)
    THEN IF cur = <<>> THEN <<>> ELSE <<cur>>
    ELSE IF s[i] \in Whitespace
         THEN IF cur = <<>> THEN SplitFrom(s, i + 1, <<>>)
              ELSE <<cur>> \o SplitFrom(s, i + 1, <<>>)
         ELSE SplitFrom(s, i + 1, Append(cur, s[i]))

Split(s) == SplitFrom(s, 1, <<>>)

\* " ".join(parts)
RECURSIVE Join(_)
Join(parts) ==
    IF parts = <<>> THEN <<>>
    ELSE IF Len(parts) = 1 THEN parts[1]
    ELSE parts[1] \o <<" ">> \o Join(Tail(parts))

\* str.isupper(): at least one cased character and no lower-case one
IsUpper(s) ==
    /\ \E i \in DOMAIN s : s[i] \in Range(UpperChars)
    /\ \A i \in DOMAIN s : s[i] \notin Range(LowerChars)

\* str(n) for a non-negative integer
RECURSIVE Digits(_)
Digits(n) ==
    IF n < 10 THEN <<DigitChars[n + 1]>>
    ELSE Digits(n \div 10) \o <<DigitChars[(n % 10) + 1]>>

\* str(x) of a value: text is itself, NaN prints as "nan"
PyStr(v) ==
    CASE v.k = "str" -> v.s
      [] v.k = "int" -> IF v.n < 0 THEN <<"-">> \o Digits(-v.n) ELSE Digits(v.n)
      [] v.k = "inf" -> IF v.n < 0 THEN <<"-","i","n","f">> ELSE <<"i","n","f">>
      [] OTHER       -> <<"n","a","n">>


\* ------------------------------------------------------------------ tables
\* A DataFrame: multi says whether df.columns is a MultiIndex (each label is
\* then the tuple of its levels, otherwise one value); rows hold one cell per
\* column.

PDNA == [k |-> "pdna", s |-> <<>>, n |-> 0]

\* str(x) as astype(str) applies it to a cell (pd.NA prints as "<NA>")
CellStr(v) == IF v.k = "pdna" THEN <<"<","N","A",">">> ELSE PyStr(v)

NoTable == [multi |-> FALSE, columns |-> <<>>, rows |-> <<>>]

\* the column names the code looks up
PLAYER == StrV(<<"p","l","a","y","e","r">>)
NAME == StrV(<<"n","a","m","e">>)
TEAM == StrV(<<"t","e","a","m">>)
TM == StrV(<<"t","m">>)
FPTS == StrV(<<"f","p","t","s">>)
FANTASY_PTS == StrV(<<"f","a","n","t","a","s","y"," ","p","t","s">>)
FANTASYPTS == StrV(<<"f","a","n","t","a","s","y","p","t","s">>)
POINTS == StrV(<<"p","o","i","n","t","s">>)
MISC_FPTS == StrV(<<"m","i","s","c"," ","f","p","t","s">>)
TOTAL_FPTS == StrV(<<"t","o","t","a","l"," ","f","p","t","s">>)

\* c in df.columns
HasCol(df, c) == \E i \in DOMAIN df.columns : df.columns[i] = c

ColIndex(df, c) ==
    CHOOSE i \in DOMAIN df.columns :
        /\ df.columns[i] = c
        /\ \A j \in DOMAIN df.columns : df.columns[j] = c => i <= j

\* df[c] as the sequence of its cells
Col(df, c) == List([r \in DOMAIN df.rows |-> df.rows[r][ColIndex(df, c)]])

\* df[c] = values: overwrite the column when present, else add it at the end
SetCol(df, c, values) ==
    IF HasCol(df, c)
    THEN [df EXCEPT !.rows =
            List([r \in DOMAIN df.rows |->
                [df.rows[r] EXCEPT ![ColIndex(df, c)] = values[r]]])]
    ELSE [df EXCEPT !.columns = Append(df.columns, c),
                    !.rows = List([r \in DOMAIN df.rows |->
                                 Append(df.rows[r], values[r])])]

\* clean_columns(df): flattens a MultiIndex to its last level, then strips and
\* lower-cases every label, assigning df.columns in place.  c.strip() on a
\* label that is not text raises AttributeError before anything is assigned.
\* Result: err (raised) and df, the caller's object after the call.
clean_columns(df) ==
    LET flat == IF df.multi
                THEN List([i \in DOMAIN df.columns |->
                        StrV(Strip(PyStr(df.columns[i][Len(df.columns[i])])))])
                ELSE df.columns
    IN  IF \E i \in DOMAIN flat : flat[i].k # "str"
        THEN [err |-> TRUE, df |-> df]
        ELSE [err |-> FALSE,
              df |-> [df EXCEPT !.multi = FALSE,
                                !.columns = List([i \in DOMAIN flat |->
                                               StrV(Lower(Strip(flat[i].s)))])]]

\* fpts_aliases of locate_projection_table
fpts_aliases == {FPTS, FANTASY_PTS, FANTASYPTS, POINTS, MISC_FPTS}

\* the test of locate_projection_table on a cleaned copy
IsProjectionTable(df) ==
    /\ HasCol(df, PLAYER)
    /\ \E alias \in fpts_aliases : HasCol(df, alias)

\* locate_projection_table(tables): st is "ok" (df returned), "none" (None
\* returned) or "raise" (clean_columns raised on a table reached by the scan).
RECURSIVE locate_projection_table(_)
locate_projection_table(tables) ==
    IF tables = <<>> THEN [st |-> "none", df |-> NoTable]
    ELSE LET c == clean_columns(tables[1])
         IN  IF c.err THEN [st |-> "raise", df |-> NoTable]
             ELSE IF IsProjectionTable(c.df) THEN [st |-> "ok", df |-> c.df]
             ELSE locate_projection_table(Tail(tables))

\* ------------------------------------------------------------------ extractor

\* the longest last token taken for a team code (len(potential_team) <= 4)
TeamCodeMaxLen == 4

\* a variant of extract_player_team without the upper-case test
extract_player_team_any_case(player_str) ==
    LET parts == Split(Strip(PyStr(player_str)))
    IN  IF /\ Len(parts) >= 2
           /\ Len(parts[Len(parts)]) <= TeamCodeMaxLen
        THEN <<StrV(Join(SubSeq(parts, 1, Len(parts) - 1))),
               StrV(parts[Len(parts)])>>
        ELSE <<player_str, PDNA>>

\* extract_player_team(player_str): the pair (player, team)
extract_player_team(player_str) ==
    LET parts == Split(Strip(PyStr(player_str)))
    IN  IF /\ Len(parts) >= 2
           /\ Len(parts[Len(parts)]) <= TeamCodeMaxLen
           /\ IsUpper(parts[Len(parts)])
        THEN <<StrV(Join(SubSeq(parts, 1, Len(parts) - 1))),
               StrV(parts[Len(parts)])>>
        ELSE <<player_str, PDNA>>

\* the value of a run of decimal digits
RECURSIVE DigitsValue(_)
DigitsValue(s) ==
    IF s = <<>> THEN 0
    ELSE 10 * DigitsValue(SubSeq(s, 1, Len(s) - 1))
         + ((CHOOSE i \in DOMAIN DigitChars : DigitChars[i] = s[Len(s)]) - 1)

\* pd.to_numeric(errors="coerce") on one cell.  Numbers stay as they are,
\* NaN stays NaN; text is parsed as an optionally signed run of digits or as
\* an infinity, and any other text (the empty text too) becomes NaN.
to_numeric(v) ==
    IF v.k \in {"int", "inf"} THEN v
    ELSE IF v.k # "str" THEN NA
    ELSE LET t == Strip(v.s)
             signed == t # <<>> /\ t[1] \in {"-", "+"}
             sign == IF signed /\ t[1] = "-" THEN -1 ELSE 1
             body == IF signed THEN Tail(t) ELSE t
         IN  IF body = <<>> THEN NA
             ELSE IF Lower(body) \in {<<"i","n","f">>,
                                      <<"i","n","f","i","n","i","t","y">>}
             THEN InfV(sign)
             ELSE IF \A i \in DOMAIN body : body[i] \in Range(DigitChars)
             THEN IntV(sign * DigitsValue(body))
             ELSE NA

\* Series.notna()
NotNa(v) == v.k \notin {"na", "pdna"}

\* the first of the names that is a column of df, or NA when none is
RECURSIVE FirstPresent(_, _)
FirstPresent(df, names) ==
    IF names = <<>> THEN NA
    ELSE IF HasCol(df, names[1]) THEN names[1]
    ELSE FirstPresent(df, Tail(names))

\* the row test of line 168
KeepRow(row) == row.player # <<>> /\ NotNa(row.fpts)

\* out[mask]: the rows that pass the row test, in order
RECURSIVE FilterRows(_)
FilterRows(rows) ==
    IF rows = <<>> THEN <<>>
    ELSE (IF KeepRow(rows[1]) THEN <<rows[1]>> ELSE <<>>)
         \o FilterRows(Tail(rows))

\* the points aliases the extractor resolves, in order (line 152)
extract_fpts_names == <<FPTS, FANTASY_PTS, FANTASYPTS, POINTS, TOTAL_FPTS>>

\* extract_player_team_fpts(df).  st is "ok" or "raise"; exc names what was
\* raised; out is the returned frame (rows of player, team, fpts); df is the
\* caller's table object after the call (clean_columns and the column
\* assignments act on it in place).
extract_player_team_fpts(df0) ==
    LET c == clean_columns(df0)
        df1 == c.df
        df2 == IF HasCol(df1, PLAYER) THEN df1
               ELSE SetCol(df1, PLAYER, Col(df1, NAME))
        team_col == FirstPresent(df2, <<TEAM, TM>>)
        extracted == List([r \in DOMAIN df2.rows |->
                         extract_player_team(Col(df2, PLAYER)[r])])
        df3 == IF team_col = NA
               THEN SetCol(SetCol(df2, PLAYER,
                               List([r \in DOMAIN df2.rows |-> extracted[r][1]])),
                           TEAM, List([r \in DOMAIN df2.rows |-> extracted[r][2]]))
               ELSE SetCol(df2, TEAM, Col(df2, team_col))
        fpts_col == FirstPresent(df3, extract_fpts_names)
        out == List([r \in DOMAIN df3.rows |->
                  [player |-> Strip(CellStr(Col(df3, PLAYER)[r])),
                   team   |-> Strip(CellStr(Col(df3, TEAM)[r])),
                   fpts   |-> to_numeric(Col(df3, fpts_col)[r])]])
    IN  IF c.err
        THEN [st |-> "raise", exc |-> "AttributeError", out |-> <<>>, df |-> df0]
        ELSE IF ~HasCol(df1, PLAYER) /\ ~HasCol(df1, NAME)
        THEN [st |-> "raise", exc |-> "MissingPlayer", out |-> <<>>, df |-> df1]
        ELSE IF fpts_col = NA
        THEN [st |-> "raise", exc |-> "MissingFPTS", out |-> <<>>, df |-> df3]
        ELSE [st |-> "ok", exc |-> "", out |-> FilterRows(out),
              df |-> df3]

\* ------------------------------------------------------------------ export fetch

\* s.split(sep) for one-character separators: the pieces between them,
\* empty pieces included
RECURSIVE Pieces(_, _, _, _)
Pieces(s, seps, i, cur) ==
    IF i > Len(s) THEN <<cur>>
    ELSE IF s[i] \in seps
         THEN <<cur>> \o Pieces(s, seps, i + 1, <<>>)
         ELSE Pieces(s, seps, i + 1, Append(cur, s[i]))

\* str.splitlines(): no lines at all for the empty text
SplitLines(s) == IF s = <<>> THEN <<>> ELSE Pieces(s, {"\n"}, 1, <<>>)

\* needle in s
Contains(s, needle) ==
    \E i \in 0..(Len(s) - Len(needle)) :
        SubSeq(s, i + 1, i + Len(needle)) = needle

PlayerToken == <<"P","l","a","y","e","r">>

\* whether a field reads as an integer literal
IsIntText(f) == f # <<>> /\ to_numeric(StrV(f)).k = "int"

\* pd.read_csv(io.StringIO(text)) for unquoted comma-separated text whose
\* header names are distinct and non-empty: the first line names the columns,
\* blank lines are skipped, short rows are padded with NaN, a row with more
\* fields than the header is a parser error; a column whose non-empty fields
\* all read as numbers is numeric, any other column keeps its text.
read_csv(text) ==
    LET lines == SplitLines(text)
        header == Pieces(lines[1], {","}, 1, <<>>)
        body == SelectSeq(Tail(lines), LAMBDA l : Strip(l) # <<>>)
        fields == List([r \in DOMAIN body |-> Pieces(body[r], {","}, 1, <<>>)])
        field(r, c) == IF c <= Len(fields[r]) THEN fields[r][c] ELSE <<>>
        numeric(c) == \A r \in DOMAIN body :
                         field(r, c) = <<>> \/ IsIntText(field(r, c))
        cell(r, c) == IF field(r, c) = <<>> THEN NA
                      ELSE IF numeric(c) THEN to_numeric(StrV(field(r, c)))
                      ELSE StrV(field(r, c))
    IN  IF \E r \in DOMAIN body : Len(fields[r]) > Len(header)
        THEN [err |-> TRUE, df |-> NoTable]
        ELSE [err |-> FALSE,
              df |-> [multi |-> FALSE,
                      columns |-> List([c \in DOMAIN header |-> StrV(header[c])]),
                      rows |-> List([r \in DOMAIN body |->
                                  List([c \in DOMAIN header |-> cell(r, c)])])]]

\* the status the export fetch accepts (resp.status_code != 200)
HttpOk == 200

\* try_fetch_csv(url) on the outcome of requests.get: resp.err says the GET
\* itself raised; otherwise resp has a status and a body.  st is "ok" (df
\* returned), "none" (None returned) or "raise"; exc names what was raised.
try_fetch_csv(resp) ==
    LET text == Strip(resp.body)
        lines == SplitLines(text)
        parsed == read_csv(text)
    IN  IF resp.err
        THEN [st |-> "raise", exc |-> "RequestException", df |-> NoTable]
        ELSE IF resp.status # HttpOk
        THEN [st |-> "none", exc |-> "", df |-> NoTable]
        ELSE IF lines = <<>>
        THEN [st |-> "raise", exc |-> "IndexError", df |-> NoTable]
        ELSE IF ~Contains(lines[1], PlayerToken)
        THEN [st |-> "none", exc |-> "", df |-> NoTable]
        ELSE IF parsed.err
        THEN [st |-> "none", exc |-> "", df |-> NoTable]
        ELSE [st |-> "ok", exc |-> "", df |-> parsed.df]

\* fetch_html_table(url) on the outcome of requests.get and of pd.read_html,
\* which yields the page's tables in document order and raises ValueError
\* when the page has none.  raise_for_status raises for a 4xx/5xx status.
fetch_html_table(resp) ==
    IF resp.err
    THEN [st |-> "raise", exc |-> "RequestException", df |-> NoTable]
    ELSE IF resp.status >= 400 /\ resp.status < 600
    THEN [st |-> "raise", exc |-> "HTTPError", df |-> NoTable]
    ELSE IF resp.tables = <<>>
    THEN [st |-> "none", exc |-> "", df |-> NoTable]
    ELSE LET r == locate_projection_table(resp.tables)
         IN  IF r.st = "raise"
             THEN [st |-> "raise", exc |-> "AttributeError", df |-> NoTable]
             ELSE [st |-> r.st, exc |-> "", df |-> r.df]

\* ------------------------------------------------------------------ inputs

\* bounds of the enumerated inputs
MaxRows == 2
MaxTables == 3
MaxCellLen == 7
MaxRetries == 2

\* A header layout: the raw labels as a page or an export carries them, and
\* which cell of a (player, team, points) triple each column holds.
Layouts ==
    [std      |-> [multi |-> FALSE,
                   labels |-> <<StrV(<<"P","l","a","y","e","r">>), StrV(<<"T","e","a","m">>), StrV(<<"F","P","T","S">>)>>,
                   roles |-> <<"player", "team", "points">>],
     embedded |-> [multi |-> FALSE,
                   labels |-> <<StrV(<<" ","P","l","a","y","e","r"," ">>), StrV(<<"F","P","T","S"," ">>)>>,
                   roles |-> <<"player", "points">>],
     name_tm  |-> [multi |-> FALSE,
                   labels |-> <<StrV(<<"N","a","m","e">>), StrV(<<"T","m">>), StrV(<<"P","o","i","n","t","s">>)>>,
                   roles |-> <<"player", "team", "points">>],
     misc     |-> [multi |-> FALSE,
                   labels |-> <<StrV(<<"P","l","a","y","e","r">>), StrV(<<"M","I","S","C"," ","F","P","T","S">>)>>,
                   roles |-> <<"player", "points">>],
     total    |-> [multi |-> FALSE,
                   labels |-> <<StrV(<<"P","l","a","y","e","r">>), StrV(<<"T","o","t","a","l"," ","F","P","T","S">>)>>,
                   roles |-> <<"player", "points">>],
     noplayer |-> [multi |-> FALSE,
                   labels |-> <<StrV(<<"R","a","n","k">>), StrV(<<"F","P","T","S">>)>>,
                   roles |-> <<"other", "points">>],
     multi    |-> [multi |-> TRUE,
                   labels |-> << <<StrV(<<"X">>), StrV(<<"P","l","a","y","e","r">>)>>,
                                 <<StrV(<<"M","I","S","C">>), StrV(<<"F","P","T","S"," ">>)>> >>,
                   roles |-> <<"player", "points">>],
     ints     |-> [multi |-> FALSE,
                   labels |-> <<IntV(0), IntV(1)>>,
                   roles |-> <<"other", "other">>]]

LayoutNames == DOMAIN Layouts

PlayerCells == {StrV(<<"A","l"," ","B","o">>), StrV(<<"A","l"," ","B","o"," ","B","U","F">>), StrV(<<>>), NA}
TeamCells == {StrV(<<"B","U","F">>)}
PointCells == {IntV(34), IntV(-5), StrV(<<"3","4">>), StrV(<<"a","b","c">>), NA, InfV(1)}

Triples == [player : PlayerCells, team : TeamCells, points : PointCells]

\* the table with the given layout and one row per triple
MakeTable(layout, triples) ==
    [multi |-> layout.multi,
     columns |-> layout.labels,
     rows |-> List([r \in DOMAIN triples |->
                 List([c \in DOMAIN layout.roles |->
                    CASE layout.roles[c] = "player" -> triples[r].player
                      [] layout.roles[c] = "team"   -> triples[r].team
                      [] layout.roles[c] = "points" -> triples[r].points
                      [] OTHER                      -> IntV(r)])])]

SeqsUpTo(S, n) == UNION {[1..m -> S] : m \in 0..n}

InputTables ==
    {MakeTable(Layouts[l], t) : l \in LayoutNames, t \in SeqsUpTo(Triples, MaxRows)}

\* ------------------------------------------------------------------ state

VARIABLES
    pc,         \* where the running code is
    arg,        \* the argument of the function under call
    ret,        \* what the call returned or raised
    ret2,       \* what the follow-up call returned or raised
    caller,     \* "main" or "direct": who called fetch_position
    posIdx,     \* index into URLS of the position being fetched
    retries,    \* fetch_position's retries argument
    backoff,    \* fetch_position's backoff argument, as <<numerator, denominator>>
    attempt,    \* the loop variable of fetch_position
    cur,        \* df of the running attempt: [st |-> "ok" | "none", df]
    last_err,   \* last_err of fetch_position
    log,        \* what the running fetch_position call has done so far
    result,     \* what fetch_position returned or raised
    fetched,    \* the positions main has called fetch_position for
    frames,     \* frames of main
    written     \* the tables main has written to the output file

pure == <<arg, ret, ret2>>
pipe == <<caller, posIdx, retries, backoff, attempt, cur, last_err, log,
          result, fetched, frames, written>>
vars == <<pc, arg, ret, ret2, caller, posIdx, retries, backoff, attempt, cur,
          last_err, log, result, fetched, frames, written>>

NoRet == [st |-> "none"]
NoCur == [st |-> "none", df |-> NoTable]

\* the pipeline variables of a state in which no pipeline runs
PipeIdle ==
    /\ caller = "none"
    /\ posIdx = 0
    /\ retries = 0
    /\ backoff = <<1, 1>>
    /\ attempt = 0
    /\ cur = NoCur
    /\ last_err = ""
    /\ log = <<>>
    /\ result = NoRet
    /\ fetched = <<>>
    /\ frames = <<>>
    /\ written = <<>>

PureIdle == arg = NA /\ ret = NoRet /\ ret2 = NoRet

\* ------------------------------------------------------------------ extractor calls

InitExtract ==
    /\ pc = "extract_in"
    /\ arg \in InputTables
    /\ ret = NoRet
    /\ ret2 = NoRet
    /\ PipeIdle

\* base = extract_player_team_fpts(df)
CallExtract ==
    /\ pc = "extract_in"
    /\ ret' = extract_player_team_fpts(arg)
    /\ pc' = "extract_out"
    /\ UNCHANGED <<arg, ret2, pipe>>

NextExtract == CallExtract

SpecExtract == InitExtract /\ [][NextExtract]_vars

\* ------------------------------------------------------------------ team splitting calls

\* the characters of the enumerated player cells: an upper-case letter, a
\* lower-case letter, a digit and a blank
SplitAlphabet == {"A", "b", "1", " "}

InitSplit ==
    /\ pc = "split_in"
    /\ arg \in {StrV(s) : s \in SeqsUpTo(SplitAlphabet, MaxCellLen)} \cup {NA}
    /\ ret = NoRet
    /\ ret2 = NoRet
    /\ PipeIdle

\* extracted = df["player"].apply(extract_player_team), on one cell
CallSplit ==
    /\ pc = "split_in"
    /\ ret' = [st |-> "ok", pair |-> extract_player_team(arg)]
    /\ pc' = "split_out"
    /\ UNCHANGED <<arg, ret2, pipe>>

NextSplit == CallSplit

SpecSplit == InitSplit /\ [][NextSplit]_vars

\* ------------------------------------------------------------------ selector calls

\* the tables of the enumerated pages: every layout, empty or with one row
PageRow == [player |-> StrV(<<"C","y"," ","D","i">>), team |-> StrV(<<"N","E">>), points |-> IntV(51)]

PageTables ==
    {MakeTable(Layouts[l], rows) : l \in LayoutNames, rows \in {<<>>, <<PageRow>>}}

InitLocate ==
    /\ pc = "locate_in"
    /\ arg \in SeqsUpTo(PageTables, MaxTables)
    /\ ret = NoRet
    /\ ret2 = NoRet
    /\ PipeIdle

\* locate_projection_table(tables), as fetch_html_table calls it
CallLocate ==
    /\ pc = "locate_in"
    /\ ret' = locate_projection_table(arg)
    /\ pc' = "locate_out"
    /\ UNCHANGED <<arg, ret2, pipe>>

\* base = extract_player_team_fpts(df) on the table the selector returned
CallExtractLocated ==
    /\ pc = "locate_out"
    /\ ret.st = "ok"
    /\ ret2' = extract_player_team_fpts(ret.df)
    /\ pc' = "located_extract_out"
    /\ UNCHANGED <<arg, ret, pipe>>

NextLocate == CallLocate \/ CallExtractLocated

SpecLocate == InitLocate /\ [][NextLocate]_vars

\* ------------------------------------------------------------------ pipeline

\* URLS
URLS ==
    <<[url |-> "https://www.fantasypros.com/nfl/projections/qb.php?week=draft",
       pos |-> "QB"],
      [url |-> "https://www.fantasypros.com/nfl/projections/rb.php?week=draft&scoring=HALF&week=draft",
       pos |-> "RB"],
      [url |-> "https://www.fantasypros.com/nfl/projections/wr.php?week=draft&scoring=HALF&week=draft",
       pos |-> "WR"],
      [url |-> "https://www.fantasypros.com/nfl/projections/te.php?week=draft&scoring=HALF&week=draft",
       pos |-> "TE"]>>

\* the defaults of fetch_position and of --weeks
DefaultRetries == 2
DefaultBackoffNum == 3
DefaultBackoffDen == 2
Weeks == 17

\* the backoff bases fetch_position is called with: 1.5 (the default) and 2
BackoffChoices == {<<DefaultBackoffNum, DefaultBackoffDen>>, <<2, 1>>}

\* what requests.get can come back with for the export URL: the call raising,
\* or a response with a status and a body
CsvResponses ==
    {[err |-> TRUE, status |-> 0, body |-> <<>>],
     [err |-> FALSE, status |-> 404, body |-> <<"N","o","t"," ","F","o","u","n","d">>],
     [err |-> FALSE, status |-> 200, body |-> <<>>],
     [err |-> FALSE, status |-> 200, body |-> <<"<","h","t","m","l",">">>],
     [err |-> FALSE, status |-> 200, body |-> <<"P","l","a","y","e","r",",","F","P","T","S","\n","A","l"," ","B","o"," ","B","U","F",",","3","4","\n">>],
     [err |-> FALSE, status |-> 200, body |-> <<"P","l","a","y","e","r",",","F","P","T","S">>],
     [err |-> FALSE, status |-> 200, body |-> <<"P","l","a","y","e","r",",","F","P","T","S","\n","a",",","1","\n","b",",","2",",","3">>],
     [err |-> FALSE, status |-> 200, body |-> <<"P","l","a","y","e","r",",","M","i","s","c","\n","A","l",",","3","4">>]}

\* what requests.get and pd.read_html can come back with for the page URL
HtmlResponses ==
    {[err |-> TRUE, status |-> 0, tables |-> <<>>],
     [err |-> FALSE, status |-> 404, tables |-> <<>>],
     [err |-> FALSE, status |-> 200, tables |-> <<>>],
     [err |-> FALSE, status |-> 200,
      tables |-> <<MakeTable(Layouts.total, <<PageRow>>)>>],
     [err |-> FALSE, status |-> 200,
      tables |-> <<MakeTable(Layouts.misc, <<PageRow>>)>>],
     [err |-> FALSE, status |-> 200,
      tables |-> <<MakeTable(Layouts.ints, <<PageRow>>),
                   MakeTable(Layouts.std, <<PageRow>>)>>],
     [err |-> FALSE, status |-> 200,
      tables |-> <<MakeTable(Layouts.noplayer, <<PageRow>>),
                   MakeTable(Layouts.std, <<PageRow>>)>>],
     [err |-> FALSE, status |-> 200,
      tables |-> <<MakeTable(Layouts.multi, <<>>)>>]}

\* a ** n for a fraction a = <<numerator, denominator>>
RECURSIVE Pow(_, _)
Pow(a, n) ==
    IF n = 0 THEN <<1, 1>>
    ELSE <<a[1] * Pow(a, n - 1)[1], a[2] * Pow(a, n - 1)[2]>>

\* a variant of BackoffDelay that counts the attempts from one
BackoffDelayFromOne(b, a) == Pow(b, a + 1)

\* the argument of time.sleep: backoff ** attempt
BackoffDelay(b, a) == Pow(b, a)

\* a variant of AttemptsRemain that is off by one
AttemptsRemainOffByOne(a, r) == a <= r

\* attempt < retries
AttemptsRemain(a, r) == a < r

\* a variant of NeedsFallback that also falls back on an empty export
NeedsFallbackOrEmpty(r) == r.st = "none" \/ (r.st = "ok" /\ r.df.rows = <<>>)

\* df is None, on the outcome of try_fetch_csv
NeedsFallback(r) == r.st = "none"

\* DataFrame.empty: no rows or no columns
IsEmpty(df) == df.rows = <<>> \/ df.columns = <<>>

\* (fpts / float(weeks)).round(2) in hundredths; an infinity stays one.  With
\* an integral fpts and 17 weeks no quotient lies half-way between hundredths.
ConvertRate(fpts) ==
    IF fpts.k = "int" THEN IntV((2 * 100 * fpts.n + Weeks) \div (2 * Weeks))
    ELSE fpts

\* base[["player", "team", "proj_pts", "pos"]]
ProjectionRows(base, pos_label) ==
    List([r \in DOMAIN base |->
        [player |-> base[r].player, team |-> base[r].team,
         proj_pts |-> ConvertRate(base[r].fpts), pos |-> pos_label]])

LogEntry(op, st, got, delay, base) ==
    [a |-> attempt, op |-> op, st |-> st, got |-> got, delay |-> delay,
     base |-> base]

\* fetch_position is entered: by main for the next of URLS ...
MainCall ==
    /\ pc = "main_for"
    /\ posIdx <= Len(URLS)
    /\ fetched' = Append(fetched, URLS[posIdx].pos)
    /\ attempt' = 0
    /\ last_err' = ""
    /\ log' = <<>>
    /\ cur' = NoCur
    /\ result' = NoRet
    /\ pc' = "for"
    /\ UNCHANGED <<pure, caller, posIdx, retries, backoff, frames, written>>

\* for attempt in range(retries + 1): the next iteration, or the end of the
\* loop and the raise last_err that follows it
LoopNext ==
    /\ pc = "for"
    /\ pc' = IF attempt < retries + 1 THEN "try_csv" ELSE "post_loop"
    /\ UNCHANGED <<pure, pipe>>

\* df = try_fetch_csv(url)
TryFetchCsv ==
    /\ pc = "try_csv"
    /\ \E resp \in CsvResponses :
         \E r \in {try_fetch_csv(resp)} :
             /\ log' = Append(log, LogEntry("csv", r.st, ~resp.err, <<0, 1>>, <<>>))
             /\ IF r.st = "raise"
                THEN /\ last_err' = r.exc
                     /\ cur' = NoCur
                     /\ pc' = "except"
                ELSE /\ last_err' = last_err
                     /\ cur' = [st |-> r.st, df |-> r.df]
                     /\ pc' = IF NeedsFallback(r) THEN "fetch_html" ELSE "extract"
    /\ UNCHANGED <<pure, caller, posIdx, retries, backoff, attempt, result,
                   fetched, frames, written>>

\* df = fetch_html_table(url)
FetchHtmlTable ==
    /\ pc = "fetch_html"
    /\ \E resp \in HtmlResponses :
         \E r \in {fetch_html_table(resp)} :
             /\ log' = Append(log, LogEntry("html", r.st, ~resp.err, <<0, 1>>, <<>>))
             /\ IF r.st = "raise"
                THEN /\ last_err' = r.exc
                     /\ cur' = NoCur
                     /\ pc' = "except"
                ELSE /\ last_err' = last_err
                     /\ cur' = [st |-> r.st, df |-> r.df]
                     /\ pc' = "extract"
    /\ UNCHANGED <<pure, caller, posIdx, retries, backoff, attempt, result,
                   fetched, frames, written>>

\* lines 185-191: the empty check, the extraction, the rate and the return
ExtractAndReturn ==
    /\ pc = "extract"
    /\ IF cur.st = "none" \/ IsEmpty(cur.df)
       THEN /\ last_err' = "NoDataTable"
            /\ log' = Append(log, LogEntry("extract", "raise", TRUE, <<0, 1>>, <<>>))
            /\ result' = result
            /\ pc' = "except"
       ELSE \E e \in {extract_player_team_fpts(cur.df)} :
              IF e.st = "raise"
              THEN /\ last_err' = e.exc
                   /\ log' = Append(log, LogEntry("extract", "raise", TRUE, <<0, 1>>, <<>>))
                   /\ result' = result
                   /\ pc' = "except"
              ELSE /\ last_err' = last_err
                   /\ log' = Append(log, LogEntry("extract", "ok", TRUE, <<0, 1>>, e.out))
                   /\ result' = [st |-> "ok",
                                 rows |-> ProjectionRows(e.out, URLS[posIdx].pos)]
                   /\ pc' = "return"
    /\ UNCHANGED <<pure, caller, posIdx, retries, backoff, attempt, cur,
                   fetched, frames, written>>

\* the except clause: sleep and go round again, or raise the wrapped failure
HandleFailure ==
    /\ pc = "except"
    /\ IF AttemptsRemain(attempt, retries)
       THEN /\ log' = Append(log, LogEntry("sleep", "", TRUE,
                                           BackoffDelay(backoff, attempt), <<>>))
            /\ attempt' = attempt + 1
            /\ result' = result
            /\ pc' = "for"
       ELSE /\ log' = Append(log, LogEntry("raise", "", TRUE, <<0, 1>>, <<>>))
            /\ attempt' = attempt
            /\ result' = [st |-> "raise", exc |-> "RuntimeError",
                          pos |-> URLS[posIdx].pos, url |-> URLS[posIdx].url,
                          cause |-> last_err]
            /\ pc' = "raised"
    /\ UNCHANGED <<pure, caller, posIdx, retries, backoff, cur, last_err,
                   fetched, frames, written>>

\* a variant of MainAppend that skips a position that failed and goes on
MainAppendSkippingFailures ==
    /\ caller = "main"
    /\ \/ /\ pc = "return"
          /\ frames' = Append(frames, result.rows)
       \/ /\ pc = "raised"
          /\ frames' = frames
    /\ posIdx' = posIdx + 1
    /\ pc' = "main_for"
    /\ UNCHANGED <<pure, caller, retries, backoff, attempt, cur, last_err, log,
                   result, fetched, written>>

\* frames.append(df_pos), back in main.  A RuntimeError out of fetch_position
\* is caught nowhere: main ends there.
MainAppend ==
    /\ caller = "main"
    /\ pc = "return"
    /\ frames' = Append(frames, result.rows)
    /\ posIdx' = posIdx + 1
    /\ pc' = "main_for"
    /\ UNCHANGED <<pure, caller, retries, backoff, attempt, cur, last_err, log,
                   result, fetched, written>>

\* pd.concat(frames, ignore_index=True)
RECURSIVE Concat(_)
Concat(fs) == IF fs = <<>> THEN <<>> ELSE fs[1] \o Concat(Tail(fs))

\* lines 225-234: concatenate, keep the expected positions, write the file
MainWrite ==
    /\ pc = "main_for"
    /\ posIdx > Len(URLS)
    /\ written' = Append(written,
                    SelectSeq(Concat(frames),
                              LAMBDA row : row.pos \in {"QB", "RB", "WR", "TE"}))
    /\ pc' = "done"
    /\ UNCHANGED <<pure, caller, posIdx, retries, backoff, attempt, cur,
                   last_err, log, result, fetched, frames>>

\* one run of main, with fetch_position's defaults
Init ==
    /\ pc = "main_for"
    /\ PureIdle
    /\ caller = "main"
    /\ posIdx = 1
    /\ retries = DefaultRetries
    /\ backoff = <<DefaultBackoffNum, DefaultBackoffDen>>
    /\ attempt = 0
    /\ cur = NoCur
    /\ last_err = ""
    /\ log = <<>>
    /\ result = NoRet
    /\ fetched = <<>>
    /\ frames = <<>>
    /\ written = <<>>

Next ==
    \/ MainCall
    \/ LoopNext
    \/ TryFetchCsv
    \/ FetchHtmlTable
    \/ ExtractAndReturn
    \/ HandleFailure
    \/ MainAppend
    \/ MainWrite

Spec == Init /\ [][Next]_vars

\* one call of fetch_position for any of the positions, with any retries
\* from 0 to MaxRetries and any of the backoff bases
InitFetch ==
    /\ pc = "for"
    /\ PureIdle
    /\ caller = "direct"
    /\ posIdx \in DOMAIN URLS
    /\ retries \in 0..MaxRetries
    /\ backoff \in BackoffChoices
    /\ attempt = 0
    /\ cur = NoCur
    /\ last_err = ""
    /\ log = <<>>
    /\ result = NoRet
    /\ fetched = <<>>
    /\ frames = <<>>
    /\ written = <<>>

NextFetch ==
    \/ LoopNext
    \/ TryFetchCsv
    \/ FetchHtmlTable
    \/ ExtractAndReturn
    \/ HandleFailure

SpecFetch == InitFetch /\ [][NextFetch]_vars

\* ------------------------------------------------------------------ properties

\* the log entries of the fetches and of the extraction step
IsStep(e) == e.op \in {"csv", "html", "extract"}

\* attempt a of the running call ended in an exception
AttemptFailed(a) ==
    \E i \in DOMAIN log : log[i].a = a /\ IsStep(log[i]) /\ log[i].st = "raise"

\* attempt a of the running call produced rows
AttemptSucceeded(a) ==
    \E i \in DOMAIN log : log[i].a = a /\ log[i].op = "extract" /\ log[i].st = "ok"

\* C1: fetch_position runs its attempts one after another, at most
\* retries + 1 of them; when it returns, it returns the rows of the first
\* attempt that succeeded, every earlier attempt having failed; when all
\* retries + 1 attempts failed it raises one wrapped failure naming the
\* position label and the URL; the raise after the loop is never reached.
C1_RetryContract ==
    /\ pc # "post_loop"
    /\ \A i, j \in DOMAIN log : i <= j => log[i].a <= log[j].a
    /\ \A i \in DOMAIN log : log[i].a \in 0..retries
    /\ \A i, j \in DOMAIN log :
         (log[i].op = "csv" /\ log[j].op = "csv" /\ log[i].a = log[j].a) => i = j
    /\ Cardinality({i \in DOMAIN log : log[i].op = "csv"}) <= retries + 1
    /\ pc = "return" =>
         /\ result.st = "ok"
         /\ AttemptSucceeded(attempt)
         /\ \A a \in 0..retries : AttemptSucceeded(a) => a = attempt
         /\ \A a \in 0..(attempt - 1) : AttemptFailed(a)
         /\ log[Len(log)].op = "extract"
         /\ log[Len(log)].a = attempt
         /\ Len(result.rows) = Len(log[Len(log)].base)
         /\ \A r \in DOMAIN result.rows :
              /\ result.rows[r].player = log[Len(log)].base[r].player
              /\ result.rows[r].team = log[Len(log)].base[r].team
              /\ result.rows[r].pos = URLS[posIdx].pos
    /\ pc = "raised" =>
         /\ \A a \in 0..retries : AttemptFailed(a)
         /\ \A a \in 0..retries : ~AttemptSucceeded(a)
         /\ result.st = "raise"
         /\ result.exc = "RuntimeError"
         /\ result.pos = URLS[posIdx].pos
         /\ result.url = URLS[posIdx].url
    /\ Cardinality({i \in DOMAIN log : log[i].op = "raise"})
         = IF pc = "raised" THEN 1 ELSE 0

\* fail, fail, succeed: the third attempt's rows are returned
C1_Witness ==
    /\ pc = "return"
    /\ retries = 2
    /\ attempt = 2
    /\ AttemptFailed(0)
    /\ AttemptFailed(1)
    /\ result.rows # <<>>

\* C2: in every attempt the export fetch comes first; the rendered-page fetch
\* is issued in that attempt exactly when the export fetch returned None: an
\* export table goes straight to extraction, an export fetch that raised ends
\* the attempt, and every retry starts again at the export fetch.
C2_ExportFirst ==
    /\ \A i \in DOMAIN log :
         (i = 1 \/ log[i - 1].op = "sleep") <=> log[i].op = "csv"
    /\ \A i \in DOMAIN log :
         log[i].op = "html" =>
            /\ i > 1
            /\ log[i - 1].op = "csv"
            /\ log[i - 1].st = "none"
            /\ log[i - 1].a = log[i].a
    /\ \A i \in DOMAIN log :
         log[i].op = "csv" =>
            CASE log[i].st = "none" ->
                    IF i = Len(log) THEN pc = "fetch_html"
                    ELSE log[i + 1].op = "html" /\ log[i + 1].a = log[i].a
              [] log[i].st = "ok" ->
                    IF i = Len(log) THEN pc = "extract"
                    ELSE log[i + 1].op = "extract" /\ log[i + 1].a = log[i].a
              [] OTHER ->
                    IF i = Len(log) THEN pc = "except"
                    ELSE log[i + 1].op \in {"sleep", "raise"}
    /\ pc = "fetch_html" => log # <<>> /\ log[Len(log)].op = "csv"
    /\ pc = "try_csv" => \A i \in DOMAIN log : log[i].a < attempt

\* the export fetch raised in attempt 0, returned None in attempt 1 (the page
\* was fetched), and returned a table in attempt 2 (the page was not)
C2_Witness ==
    /\ \E i \in DOMAIN log : log[i].a = 0 /\ log[i].op = "csv" /\ log[i].st = "raise"
    /\ \E i \in DOMAIN log : log[i].a = 1 /\ log[i].op = "html"
    /\ \E i \in DOMAIN log : log[i].a = 2 /\ log[i].op = "csv" /\ log[i].st = "ok"
    /\ \E i \in DOMAIN log : log[i].a = 2 /\ log[i].op = "extract"

\* whether s is a prefix of t
IsPrefix(s, t) == Len(s) <= Len(t) /\ SubSeq(t, 1, Len(s)) = s

ConfiguredOrder == <<"QB", "RB", "WR", "TE">>

\* C3: main fetches the positions in the order QB, RB, WR, TE; when
\* fetch_position fails fatally the run ends there, with no later position
\* fetched and no file written; otherwise the file is written once, after
\* all four positions succeeded.
C3_OrderAndAbort ==
    /\ IsPrefix(fetched, ConfiguredOrder)
    /\ Len(written) <= 1
    /\ written # <<>> => pc = "done"
    /\ pc = "done" =>
         /\ Len(written) = 1
         /\ Len(frames) = 4
         /\ fetched = ConfiguredOrder
         /\ written[1] = Concat(frames)
    /\ pc = "raised" =>
         /\ written = <<>>
         /\ Len(frames) = Len(fetched) - 1
         /\ fetched[Len(fetched)] = result.pos
         /\ ~ENABLED Next
    /\ Len(frames) <= Len(fetched)
    /\ \A k \in DOMAIN frames : \A r \in DOMAIN frames[k] :
         frames[k][r].pos = ConfiguredOrder[k]

\* QB succeeded, RB failed fatally: the run has ended with nothing written
C3_Witness ==
    /\ caller = "main"
    /\ pc = "raised"
    /\ fetched = <<"QB", "RB">>
    /\ Len(frames) = 1
    /\ written = <<>>

\* C4: every row extract_player_team_fpts returns has a non-empty player and
\* points that are a non-negative finite number.
C4_RowsValid ==
    (pc = "extract_out" /\ ret.st = "ok") =>
        \A r \in DOMAIN ret.out :
            /\ ret.out[r].player # <<>>
            /\ ret.out[r].fpts.k = "int"
            /\ ret.out[r].fpts.n >= 0

\* the tokens of a player cell, as the claim's "split on whitespace"
CellTokens(v) == Split(PyStr(v))

\* a token written entirely in upper case: it has a letter, and no letter of
\* it is in lower case
EntirelyUpper(tok) ==
    /\ \E i \in DOMAIN tok : tok[i] \in Range(UpperChars)
    /\ \A i \in DOMAIN tok : tok[i] \notin Range(LowerChars)

\* C5: with no team column, the last whitespace-separated token of a player
\* cell is taken as the team, and the other tokens as the player, exactly
\* when the cell has at least two tokens and the last one is at most 4
\* characters long and entirely upper-case; otherwise the team is unknown
\* and the player cell is left as it was.
C5_TeamSplit ==
    pc = "split_out" =>
        LET toks == CellTokens(arg)
            taken == /\ Len(toks) >= 2
                     /\ Len(toks[Len(toks)]) <= 4
                     /\ EntirelyUpper(toks[Len(toks)])
        IN  IF taken
            THEN /\ ret.pair[2] = StrV(toks[Len(toks)])
                 /\ ret.pair[1].k = "str"
                 /\ Split(ret.pair[1].s) = SubSeq(toks, 1, Len(toks) - 1)
                 /\ ret.pair[1].s = Join(SubSeq(toks, 1, Len(toks) - 1))
            ELSE /\ ret.pair[1] = arg
                 /\ ret.pair[2] = PDNA

\* a three-token cell whose last token is an upper-case code: it was split
C5_Witness ==
    /\ pc = "split_out"
    /\ arg = StrV(<<"A", "b", " ", "b", " ", "A", "A">>)
    /\ ret.pair = <<StrV(<<"A", "b", " ", "b">>), StrV(<<"A", "A">>)>>

\* C6: whenever the GET of the export URL returned a response, try_fetch_csv
\* returned a table or None and did not raise.
C6_NeverRaises ==
    \A i \in DOMAIN log :
        (log[i].op = "csv" /\ log[i].got) => log[i].st \in {"ok", "none"}

\* the successive sleeps of the running call
Sleeps == SelectSeq(log, LAMBDA e : e.op = "sleep")

Defaults ==
    retries = DefaultRetries /\ backoff = <<DefaultBackoffNum, DefaultBackoffDen>>

\* equality of two fractions
SameFraction(x, y) == x[1] * y[2] = y[1] * x[2]

\* C7 as stated: with the defaults the successive delays are 0, 1.5 and 2.25
C7_DelaysAsStated ==
    Defaults =>
        \A k \in DOMAIN Sleeps :
            /\ k <= 3
            /\ SameFraction(Sleeps[k].delay, <<<<0, 1>>, <<3, 2>>, <<9, 4>>>>[k])

\* C7, amended: after a failed attempt i a sleep of backoff ** i seconds
\* happens exactly when attempts remain (i < retries): none after the last
\* failed attempt, none after a success; with the defaults there are at most
\* two sleeps, of 1 and 1.5 seconds.
C7_Backoff ==
    /\ \A i \in DOMAIN log :
         log[i].op = "sleep" =>
            /\ i > 1
            /\ IsStep(log[i - 1])
            /\ log[i - 1].st = "raise"
            /\ log[i - 1].a = log[i].a
            /\ log[i].a < retries
            /\ SameFraction(log[i].delay, Pow(backoff, log[i].a))
    /\ \A i \in DOMAIN log :
         (IsStep(log[i]) /\ log[i].st = "raise") =>
            IF i = Len(log) THEN pc = "except"
            ELSE log[i + 1].op = IF log[i].a < retries THEN "sleep" ELSE "raise"
    /\ \A i \in DOMAIN log :
         (log[i].op = "extract" /\ log[i].st = "ok") => i = Len(log) /\ pc = "return"
    /\ \A i \in DOMAIN log : log[i].op = "raise" => i = Len(log)
    /\ Defaults => IsPrefix([k \in DOMAIN Sleeps |-> Sleeps[k].delay],
                            <<<<1, 1>>, <<3, 2>>>>)

\* all three default attempts failed: two sleeps, then the raise
C7_Witness ==
    /\ Defaults
    /\ pc = "raised"
    /\ Len(Sleeps) = 2
    /\ Sleeps[1].delay = <<1, 1>>
    /\ Sleeps[2].delay = <<3, 2>>
    /\ log[Len(log) - 1].st = "raise"

\* the innermost label of a column as text, lower-cased and trimmed
CanonLabel(t, i) ==
    StrV(Lower(Strip(PyStr(IF t.multi THEN t.columns[i][Len(t.columns[i])]
                           ELSE t.columns[i]))))

\* the table with its labels made canonical
Canonical(t) ==
    [multi |-> FALSE,
     columns |-> [i \in DOMAIN t.columns |-> CanonLabel(t, i)],
     rows |-> t.rows]

\* the canonical columns hold player and one of the selector's aliases
Matches(t) ==
    LET cols == {CanonLabel(t, i) : i \in DOMAIN t.columns}
    IN  PLAYER \in cols /\ cols \cap fpts_aliases # {}

\* C8: locate_projection_table returns the canonical form of the first table,
\* in document order, that matches, and None exactly when none matches.
C8_FirstMatch ==
    pc \in {"locate_out", "located_extract_out"} =>
        IF \E i \in DOMAIN arg : Matches(arg[i])
        THEN LET first == CHOOSE i \in DOMAIN arg :
                             Matches(arg[i]) /\ \A j \in 1..(i - 1) : ~Matches(arg[j])
             IN  ret.st = "ok" /\ ret.df = Canonical(arg[first])
        ELSE ret.st = "none"

\* C9: after extract_player_team_fpts the caller's table is as it was, and
\* the same holds for clean_columns.
C9_InputUnchanged ==
    pc = "extract_out" => (ret.df = arg /\ clean_columns(arg).df = arg)

\* C10: a table the selector returned never makes the extractor fail with a
\* missing column.
C10_SelectorExtractorAgree ==
    pc = "located_extract_out" =>
        ~(ret2.st = "raise" /\ ret2.exc \in {"MissingPlayer", "MissingFPTS"})

=============================================================================
